---- MODULE Spec2Model ----
(***************************************************************************)
(* CoxOrb data visualiser: the time-alignment and replay-synchronisation   *)
(* core of src/app.py (elapsed-time parsing, split derivation, temporal    *)
(* join, page pipeline) and of the browser scripts that src/html_utils.py  *)
(* generates (trim/replay sliders, audio-driven playback resolver).        *)
(*                                                                         *)
(* Each component has its own specification over the shared variables:     *)
(*   SpecReplay    the trim / replay slider controller                     *)
(*   SpecAudio     the audio playback resolver                             *)
(*   SpecPipeline  the page script: GPX, CSV, replay and audio sections,   *)
(*                 and its reruns on the same uploads                      *)
(*   SpecParse     parse_time_str as a function of one input               *)
(*   SpecSplit     the split derivation over a speed column                *)
(***************************************************************************)
EXTENDS Integers, Sequences, FiniteSets, TLC

VARIABLES
    \* --- replay controller (generate_client_side_replay script) ---
    rpc,              \* "html": markup parsed, script not run; "ready": script ran
    totalLen,         \* rawDataPoints.length
    trimStartSlider,  \* <input type=range id=trimStart>: [min, max, value]
    trimEndSlider,    \* <input type=range id=trimEnd>
    replaySlider,     \* <input type=range id=replaySlider>
    chartData,        \* myChart.data.labels: the raw indices on the chart
    rangeStart,       \* the local `start` of the last updateDataRange call
    shownIdx,         \* raw index whose marker / stats are displayed
    vline,            \* chart index of the drawn vertical line, or NoLine
    lastEvent,        \* the last listener call: which slider, the value it was
                      \* dragged to, and the state the listener started in
    \* --- audio playback driver (generate_audio_map_html script) ---
    apc,              \* "html", "ready", or "error" (the script threw)
    routeSeconds,     \* routePoints[i].seconds, i = 0 .. length-1
    lastIdx,          \* var lastIdx
    markerIdx,        \* route index the boat marker stands on
    statsIdx,         \* route index whose stats are displayed, or Placeholder
    currentTime,      \* audio.currentTime of the last tick
    lastTick,         \* the last tick's lastIdx on entry, its startSearch, the
                      \* playback time of the tick before it, and whether the
                      \* playback times so far never went back
    \* --- parse_time_str applied to one value ---
    time_str,         \* the argument: [kind, tenths, chars]
    origin,           \* the fields a formatted argument was written from
    parsed,           \* [done, exc, value]: the call's outcome
    \* --- split derivation over the performance table ---
    perf,             \* [hasSpeed, hasSplit, rows]: the columns Speed (m/s)
                      \* and Split (s/500m) of csv_df
    derived,          \* the derivation statement has run
    perf_read,        \* the two columns as pd.read_csv returned them
    derivations,      \* how many times the derivation statement has run
    \* --- one run of the page script (app.py main logic) ---
    gpx_file,         \* the uploaded GPX: [loaded, points]
    csv_file,         \* the uploaded CSV: [loaded, hasElapsed, rows]
    pc,               \* the section the run is about to execute
    gpx_df,           \* [set, hasSeconds, rows]; set = FALSE is None
    csv_df,           \* [set, hasSeconds, rows]; set = FALSE is None
    merged,           \* merge_datasets' outcome: [called, exc, rows, right];
                      \* right is gpx_sorted as it enters merge_asof
    view,             \* what each section put on the page:
                      \* [gpx, csv, replay, audio]
    audio_bytes,      \* TRUE when an audio recording is loaded; FALSE is None
    uncaught,         \* the exception that ended the run, or NoExc
    runs,             \* page runs started since the files were uploaded
    merge_calls       \* executions of merge_datasets' body since then

replayVars == <<rpc, totalLen, trimStartSlider, trimEndSlider, replaySlider,
                chartData, rangeStart, shownIdx, vline, lastEvent>>

audioVars == <<apc, routeSeconds, lastIdx, markerIdx, statsIdx, currentTime,
               lastTick>>

parseVars == <<time_str, origin, parsed>>

splitVars == <<perf, derived, perf_read, derivations>>

pipeVars == <<gpx_file, csv_file, pc, gpx_df, csv_df, merged, view,
              audio_bytes, uncaught, runs, merge_calls>>

vars == <<replayVars, audioVars, parseVars, splitVars, pipeVars>>

(***************************************************************************)
(* Bounds of the model.                                                    *)
(***************************************************************************)
MaxN == 7          \* longest joined sequence given to the replay script
MaxPts == 4        \* longest position stream given to the audio script
MaxSec == 4        \* largest elapsed second / playback time of the audio model
MaxStrLen == 4     \* longest arbitrary 'Elapsed Time' string
MaxTenths == 25    \* largest magnitude (in tenths) of a numeric 'Elapsed Time'
MaxHour == 1       \* largest hour field of a formatted 'Elapsed Time'
MaxRows == 2       \* most rows of the performance table of the split model
MaxSpeed == 4      \* largest speed magnitude, in 1/SpeedScale m/s
MaxGpx == 2        \* most track points of the uploaded GPX
MaxCsv == 2        \* most rows of the uploaded CSV
MaxT == 6          \* latest time stamp of an upload, in seconds
MaxRuns == 2       \* most runs of the page script on the same uploads
MaxDerivations == 2  \* most runs of the split derivation on one table

(***************************************************************************)
(* Generic helpers.                                                        *)
(***************************************************************************)
Undefined == -9           \* stands for a value that is not there
Placeholder == Undefined  \* the stat boxes' initial text "--"
NoLine == Undefined       \* no vertical line on the chart
Unset == Undefined        \* a script variable not assigned yet

Max2(a, b) == IF a >= b THEN a ELSE b
Min2(a, b) == IF a <= b THEN a ELSE b

(***************************************************************************)
(* An <input type=range>.  The browser keeps the value inside [min, max]   *)
(* whenever min, max or value is assigned (value sanitisation: an          *)
(* underflow goes to min; an overflow goes to max when max >= min).        *)
(***************************************************************************)
HtmlMin == 0
HtmlMax == 100

Sanitize(lo, hi, v) ==
    IF v < lo THEN lo
    ELSE IF hi >= lo /\ v > hi THEN hi
    ELSE IF hi < lo THEN lo
    ELSE v

Slider(lo, hi, v) == [min |-> lo, max |-> hi, value |-> Sanitize(lo, hi, v)]
SetValue(s, v) == [s EXCEPT !.value = Sanitize(s.min, s.max, v)]
SetMin(s, lo) == [s EXCEPT !.min = lo, !.value = Sanitize(lo, s.max, s.value)]
SetMax(s, hi) == [s EXCEPT !.max = hi, !.value = Sanitize(s.min, hi, s.value)]

\* The values a user can drag a slider to.
SliderRange(s) == s.min .. s.max

(***************************************************************************)
(* Array.prototype.slice(from, to) over an array of length n whose element *)
(* i is the raw index i: a negative bound counts from the end.             *)
(***************************************************************************)
SliceBound(n, k) == IF k < 0 THEN Max2(n + k, 0) ELSE Min2(k, n)

Slice(n, from, to) ==
    LET a == SliceBound(n, from)
        b == SliceBound(n, to)
    IN  IF b <= a THEN << >> ELSE [i \in 1 .. (b - a) |-> a + i - 1]

(***************************************************************************)
(* verticalLinePlugin.afterDraw: the line is drawn at chart index          *)
(* replaySlider.value - trimStartSlider.value when that index is on the    *)
(* chart.                                                                  *)
(***************************************************************************)
AfterDraw(rs, ts, data) ==
    LET relativeIdx == rs.value - ts.value
    IN  IF relativeIdx < 0 \/ relativeIdx >= Len(data) THEN NoLine
        ELSE relativeIdx

(***************************************************************************)
(* updateDisplay(idx): shows rawDataPoints[idx] when it exists, then       *)
(* redraws the chart.                                                      *)
(***************************************************************************)
PointExists(n, idx) == idx >= 0 /\ idx < n

UpdateDisplay(idx) ==
    /\ shownIdx' = IF PointExists(totalLen, idx) THEN idx ELSE shownIdx
    /\ vline' = AfterDraw(replaySlider', trimStartSlider', chartData')

(***************************************************************************)
(* updateDataRange().                                                      *)
(***************************************************************************)
\* "Validation: Start cannot overlap End".
ValidatedStart(start, end) == IF start >= end THEN end - 1 ELSE start

\* "If replay slider is out of bounds, reset it".
ResetReplay(rs, start, end) ==
    LET r1 == IF rs.value < start THEN SetValue(rs, start) ELSE rs
    IN  IF r1.value > end THEN SetValue(r1, end) ELSE r1

UpdateDataRange(ts, te) ==
    LET end == te.value
        start == ValidatedStart(ts.value, end)
        ts1 == IF ts.value >= end THEN SetValue(ts, start) ELSE ts
        rs1 == SetMax(SetMin(replaySlider, start), end)
        rs2 == ResetReplay(rs1, start, end)
    IN  /\ trimStartSlider' = ts1
        /\ trimEndSlider' = te
        /\ rangeStart' = start
        /\ chartData' = Slice(totalLen, start, end + 1)
        /\ replaySlider' = rs2
        /\ UpdateDisplay(rs2.value)

(***************************************************************************)
(* The replay script: its start-up and its three listeners.                *)
(***************************************************************************)
\* A step of the replay script touches nothing else on the page.
OnlyReplay == UNCHANGED <<audioVars, parseVars, splitVars, pipeVars>>

\* No listener has been called yet.
NoEvent ==
    [kind |-> "none", v |-> Unset, trimStart |-> Unset, trimEnd |-> Unset,
     currentIndex |-> Unset, chartData |-> << >>]

\* The input event of slider `kind` dragged to v, and the state it finds.
InputEvent(kind, v) ==
    [kind |-> kind, v |-> v, trimStart |-> trimStartSlider.value,
     trimEnd |-> trimEndSlider.value, currentIndex |-> replaySlider.value,
     chartData |-> chartData]

\* The markup as parsed, before the script runs.
InitReplay ==
    /\ rpc = "html"
    /\ totalLen \in 1 .. MaxN
    /\ replaySlider = Slider(HtmlMin, HtmlMax, 0)
    /\ trimStartSlider = Slider(HtmlMin, HtmlMax, 0)
    /\ trimEndSlider = Slider(HtmlMin, HtmlMax, HtmlMax)
    /\ chartData = << >>
    /\ rangeStart = Unset
    /\ shownIdx = Placeholder
    /\ vline = NoLine
    /\ lastEvent = NoEvent

\* The script body: slider bounds, map and chart on the full data, then the
\* initial updateDataRange() call.
ScriptInit ==
    /\ OnlyReplay
    /\ rpc = "html"
    /\ rpc' = "ready"
    /\ UNCHANGED <<totalLen, lastEvent>>
    /\ LET ts == SetMax(trimStartSlider, totalLen - 1)
           te == SetValue(SetMax(trimEndSlider, totalLen - 1), totalLen - 1)
       IN  UpdateDataRange(ts, te)

\* trimStartSlider.oninput = updateDataRange
TrimStartInput ==
    /\ OnlyReplay
    /\ rpc = "ready"
    /\ \E v \in SliderRange(trimStartSlider) :
          /\ v # trimStartSlider.value
          /\ lastEvent' = InputEvent("trimStart", v)
          /\ UpdateDataRange(SetValue(trimStartSlider, v), trimEndSlider)
    /\ UNCHANGED <<rpc, totalLen>>

\* trimEndSlider.oninput = updateDataRange
TrimEndInput ==
    /\ OnlyReplay
    /\ rpc = "ready"
    /\ \E v \in SliderRange(trimEndSlider) :
          /\ v # trimEndSlider.value
          /\ lastEvent' = InputEvent("trimEnd", v)
          /\ UpdateDataRange(trimStartSlider, SetValue(trimEndSlider, v))
    /\ UNCHANGED <<rpc, totalLen>>

\* replaySlider.oninput = function() { updateDisplay(this.value); }
ReplayInput ==
    /\ OnlyReplay
    /\ rpc = "ready"
    /\ \E v \in SliderRange(replaySlider) :
          /\ v # replaySlider.value
          /\ lastEvent' = InputEvent("replay", v)
          /\ replaySlider' = SetValue(replaySlider, v)
          /\ UNCHANGED <<trimStartSlider, trimEndSlider, chartData, rangeStart>>
          /\ UpdateDisplay(v)
    /\ UNCHANGED <<rpc, totalLen>>

NextReplay == ScriptInit \/ TrimStartInput \/ TrimEndInput \/ ReplayInput

\* The page holds no replay component.
IdleReplay ==
    /\ rpc = "absent"
    /\ totalLen = 0
    /\ replaySlider = Slider(HtmlMin, HtmlMax, 0)
    /\ trimStartSlider = Slider(HtmlMin, HtmlMax, 0)
    /\ trimEndSlider = Slider(HtmlMin, HtmlMax, HtmlMax)
    /\ chartData = << >>
    /\ rangeStart = Unset
    /\ shownIdx = Placeholder
    /\ vline = NoLine
    /\ lastEvent = NoEvent

\* The replay state of the design: the three slider values.
trimStart == trimStartSlider.value
trimEnd == trimEndSlider.value
currentIndex == replaySlider.value

(***************************************************************************)
(* The audio playback driver: routePoints sorted by seconds, the start-up  *)
(* of the script and audio.ontimeupdate.                                   *)
(***************************************************************************)
Abs(x) == IF x < 0 THEN -x ELSE x

\* routePoints[i].seconds for a 0-based i.
SecondsAt(pts, i) == pts[i + 1]

IsSortedSeq(pts) == \A i \in 1 .. Len(pts) - 1 : pts[i] <= pts[i + 1]

SortedStreams ==
    UNION {{pts \in [1 .. n -> 0 .. MaxSec] : IsSortedSeq(pts)} : n \in 0 .. MaxPts}

\* "Reset to 0 if we scrubbed backward".
StartSearch(pts, idx, t) == IF t < SecondsAt(pts, idx) THEN 0 ELSE idx

\* Mutant of ScanFrom: a sample is taken only when it is strictly closer.
RECURSIVE ScanFromStrict(_, _, _, _)
ScanFromStrict(pts, t, i, st) ==
    IF i >= Len(pts) THEN st
    ELSE LET diff == Abs(t - SecondsAt(pts, i))
         IN  IF diff < st.minDiff
             THEN ScanFromStrict(pts, t, i + 1,
                                 [closest |-> i, lastIdx |-> i, minDiff |-> diff])
             ELSE st

\* The for loop from index i: st is [closest, lastIdx, minDiff].
RECURSIVE ScanFrom(_, _, _, _)
ScanFrom(pts, t, i, st) ==
    IF i >= Len(pts) THEN st
    ELSE LET diff == Abs(t - SecondsAt(pts, i))
         IN  IF diff <= st.minDiff
             THEN ScanFrom(pts, t, i + 1,
                           [closest |-> i, lastIdx |-> i, minDiff |-> diff])
             ELSE st

\* Mutant of Resolve: lastIdx is moved to startSearch before the loop.
ResolveFromStart(pts, idx, t) ==
    ScanFrom(pts, t, StartSearch(pts, idx, t),
             [closest |-> idx, lastIdx |-> StartSearch(pts, idx, t),
              minDiff |-> Abs(t - SecondsAt(pts, idx))])

\* The resolution of one tick: closestPoint and the new lastIdx.
Resolve(pts, idx, t) ==
    ScanFrom(pts, t, StartSearch(pts, idx, t),
             [closest |-> idx, lastIdx |-> idx,
              minDiff |-> Abs(t - SecondsAt(pts, idx))])

\* A step of the audio script touches nothing else on the page.
OnlyAudio == UNCHANGED <<replayVars, parseVars, splitVars, pipeVars>>

NoTick ==
    [lastIdx |-> Unset, startSearch |-> Unset, time |-> Unset, ascending |-> TRUE]

InitAudio ==
    /\ apc = "html"
    /\ routeSeconds \in SortedStreams
    /\ lastIdx = Unset
    /\ markerIdx = Unset
    /\ statsIdx = Placeholder
    /\ currentTime = Unset
    /\ lastTick = NoTick

\* The script body: routePoints[0].lat throws on an empty array and the rest
\* of the script (marker, lastIdx, ontimeupdate) never runs.
AudioScriptInit ==
    /\ OnlyAudio
    /\ apc = "html"
    /\ IF Len(routeSeconds) = 0
       THEN /\ apc' = "error"
            /\ UNCHANGED <<lastIdx, markerIdx>>
       ELSE /\ apc' = "ready"
            /\ lastIdx' = 0
            /\ markerIdx' = 0
    /\ UNCHANGED <<routeSeconds, statsIdx, currentTime, lastTick>>

\* audio.ontimeupdate with audio.currentTime = t.
TimeUpdate ==
    /\ OnlyAudio
    /\ apc = "ready"
    /\ \E t \in 0 .. MaxSec :
          LET r == Resolve(routeSeconds, lastIdx, t)
          IN  /\ currentTime' = t
              /\ lastTick' = [lastIdx |-> lastIdx,
                              startSearch |-> StartSearch(routeSeconds, lastIdx, t),
                              time |-> currentTime,
                              ascending |-> /\ lastTick.ascending
                                            /\ currentTime # Unset => currentTime <= t]
              /\ lastIdx' = r.lastIdx
              /\ markerIdx' = r.closest
              /\ statsIdx' = r.closest
    /\ UNCHANGED <<apc, routeSeconds>>

NextAudio == AudioScriptInit \/ TimeUpdate

\* The page holds no audio component.
IdleAudio ==
    /\ apc = "absent"
    /\ routeSeconds = << >>
    /\ lastIdx = Unset
    /\ markerIdx = Unset
    /\ statsIdx = Placeholder
    /\ currentTime = Unset
    /\ lastTick = NoTick

(***************************************************************************)
(* parse_time_str(time_str).  A string is a sequence of characters; a      *)
(* number is kept in tenths; a float built from a string is num / den with *)
(* den a power of ten.                                                     *)
(***************************************************************************)
DigitChars == <<"0", "1", "2", "3", "4", "5", "6", "7", "8", "9">>
IsDigit(c) == \E d \in 1 .. 10 : DigitChars[d] = c
DigitVal(c) == (CHOOSE d \in 1 .. 10 : DigitChars[d] = c) - 1

NoExc == "none"
Returned(v) == [exc |-> NoExc, value |-> v]
Raised(e) == [exc |-> e, value |-> 0]

\* str.split(':')
RECURSIVE SplitColon(_, _, _)
SplitColon(chars, i, cur) ==
    IF i > Len(chars) THEN <<cur>>
    ELSE IF chars[i] = ":" THEN <<cur>> \o SplitColon(chars, i + 1, << >>)
    ELSE SplitColon(chars, i + 1, Append(cur, chars[i]))

RECURSIVE DigitsValue(_)
DigitsValue(ds) ==
    IF Len(ds) = 0 THEN 0
    ELSE 10 * DigitsValue(SubSeq(ds, 1, Len(ds) - 1)) + DigitVal(ds[Len(ds)])

RECURSIVE Pow10(_)
Pow10(n) == IF n = 0 THEN 1 ELSE 10 * Pow10(n - 1)

AllDigits(ds) == \A i \in 1 .. Len(ds) : IsDigit(ds[i])
HasSign(cs) == Len(cs) > 0 /\ cs[1] \in {"-", "+"}
Unsigned(cs) == IF HasSign(cs) THEN SubSeq(cs, 2, Len(cs)) ELSE cs
SignOf(cs) == IF Len(cs) > 0 /\ cs[1] = "-" THEN -1 ELSE 1

\* int(text): an optional sign and at least one digit, else ValueError.
PyInt(cs) ==
    LET body == Unsigned(cs)
    IN  IF Len(body) > 0 /\ AllDigits(body)
        THEN [exc |-> NoExc, num |-> SignOf(cs) * DigitsValue(body), den |-> 1]
        ELSE [exc |-> "ValueError", num |-> 0, den |-> 1]

\* float(text): an optional sign, digits with at most one '.', at least one
\* digit, else ValueError.
PyFloat(cs) ==
    LET body == Unsigned(cs)
        dots == {i \in 1 .. Len(body) : body[i] = "."}
        dot == IF dots = {} THEN Len(body) + 1 ELSE CHOOSE i \in dots : TRUE
        whole == SubSeq(body, 1, dot - 1)
        frac == SubSeq(body, dot + 1, Len(body))
    IN  IF /\ Cardinality(dots) <= 1
           /\ AllDigits(whole) /\ AllDigits(frac)
           /\ Len(whole) + Len(frac) > 0
        THEN [exc |-> NoExc,
              num |-> SignOf(cs) * (DigitsValue(whole) * Pow10(Len(frac))
                                      + DigitsValue(frac)),
              den |-> Pow10(Len(frac))]
        ELSE [exc |-> "ValueError", num |-> 0, den |-> 1]

\* Mutant of PyRound: a tie goes up.
PyRoundHalfUp(num, den) ==
    LET q == num \div den
        r == num - q * den
    IN  IF 2 * r < den THEN q ELSE q + 1

\* round(num / den): to the nearest integer, a tie to the even one.
PyRound(num, den) ==
    LET q == num \div den
        r == num - q * den
    IN  IF 2 * r < den THEN q
        ELSE IF 2 * r > den THEN q + 1
        ELSE IF q % 2 = 0 THEN q ELSE q + 1

\* The HH:MM:SS branch.
TotalOfThree(parts) ==
    LET h == PyInt(parts[1])
        m == PyInt(parts[2])
        sec == PyFloat(parts[3])
    IN  IF h.exc # NoExc THEN Raised(h.exc)
        ELSE IF m.exc # NoExc THEN Raised(m.exc)
        ELSE IF sec.exc # NoExc THEN Raised(sec.exc)
        ELSE Returned(PyRound((h.num * 3600 + m.num * 60) * sec.den + sec.num,
                              sec.den))

\* The MM:SS branch.
TotalOfTwo(parts) ==
    LET m == PyInt(parts[1])
        sec == PyFloat(parts[2])
    IN  IF m.exc # NoExc THEN Raised(m.exc)
        ELSE IF sec.exc # NoExc THEN Raised(sec.exc)
        ELSE Returned(PyRound(m.num * 60 * sec.den + sec.num, sec.den))

\* The body of the try block.
ParseBody(x) ==
    IF x.kind \in {"None", "NaN"} THEN Returned(0)
    ELSE IF x.kind = "inf" THEN Raised("OverflowError")
    ELSE IF x.kind = "num" THEN Returned(PyRound(x.tenths, 10))
    ELSE LET parts == SplitColon(x.chars, 1, << >>)
         IN  IF Len(parts) = 3 THEN TotalOfThree(parts)
             ELSE IF Len(parts) = 2 THEN TotalOfTwo(parts)
             ELSE Returned(PyRound(0, 1))

\* Mutant of ExceptAll: except ValueError only.
ExceptValueError(r) == IF r.exc = "ValueError" THEN Returned(0) ELSE r

\* try: ... except: return 0
ExceptAll(r) == IF r.exc # NoExc THEN Returned(0) ELSE r

parse_time_str(x) == ExceptAll(ParseBody(x))

(***************************************************************************)
(* The arguments the parser is run on.                                     *)
(***************************************************************************)
PyNone == [kind |-> "None", tenths |-> 0, chars |-> << >>]
PyNaN == [kind |-> "NaN", tenths |-> 0, chars |-> << >>]
PyInf == [kind |-> "inf", tenths |-> 0, chars |-> << >>]
PyNum(t) == [kind |-> "num", tenths |-> t, chars |-> << >>]
PyStr(cs) == [kind |-> "str", tenths |-> 0, chars |-> cs]

Alphabet == {"0", "1", "5", ":", ".", "-", "a"}
ArbitraryStrings == UNION {[1 .. n -> Alphabet] : n \in 0 .. MaxStrLen}

\* n written with at least w digits.
RECURSIVE FmtDigits(_, _)
FmtDigits(n, w) ==
    IF n < 10 /\ w <= 1 THEN <<DigitChars[n + 1]>>
    ELSE Append(FmtDigits(n \div 10, w - 1), DigitChars[(n % 10) + 1])

NoFraction == 10
\* Seconds "SS" or "SS.f".
FmtSeconds(sec, f) ==
    IF f = NoFraction THEN FmtDigits(sec, 2)
    ELSE FmtDigits(sec, 2) \o <<".">> \o FmtDigits(f, 1)

FmtHMS(h, w, m, sec, f) ==
    FmtDigits(h, w) \o <<":">> \o FmtDigits(m, 2) \o <<":">> \o FmtSeconds(sec, f)
FmtMS(m, w, sec, f) ==
    FmtDigits(m, w) \o <<":">> \o FmtSeconds(sec, f)

MinuteVals == {0, 2, 15, 59}
SecondVals == {0, 3, 30, 59}
FractionVals == 0 .. NoFraction

NoOrigin == [valid |-> FALSE, h |-> 0, m |-> 0, tenths |-> 0]
\* The second count of the fields, in tenths of a second.
FieldTenths(h, m, sec, f) ==
    (h * 3600 + m * 60 + sec) * 10 + (IF f = NoFraction THEN 0 ELSE f)

NotParsed == [done |-> FALSE, exc |-> NoExc, value |-> 0]

InitParse ==
    /\ parsed = NotParsed
    /\ \/ /\ time_str \in {PyNone, PyNaN, PyInf}
                            \cup {PyNum(t) : t \in -MaxTenths .. MaxTenths}
                            \cup {PyStr(cs) : cs \in ArbitraryStrings}
          /\ origin = NoOrigin
       \/ \E h \in 0 .. MaxHour, w \in 1 .. 2, m \in MinuteVals,
             sec \in SecondVals, f \in FractionVals :
             /\ time_str = PyStr(FmtHMS(h, w, m, sec, f))
             /\ origin = [valid |-> TRUE, h |-> h, m |-> m,
                          tenths |-> FieldTenths(h, m, sec, f)]
       \/ \E w \in 1 .. 2, m \in MinuteVals, sec \in SecondVals,
             f \in FractionVals :
             /\ time_str = PyStr(FmtMS(m, w, sec, f))
             /\ origin = [valid |-> TRUE, h |-> 0, m |-> m,
                          tenths |-> FieldTenths(0, m, sec, f)]

\* One call of parse_time_str.
OnlyParse == UNCHANGED <<replayVars, audioVars, splitVars, pipeVars>>

ApplyParse ==
    /\ OnlyParse
    /\ ~parsed.done
    /\ LET r == parse_time_str(time_str)
       IN  parsed' = [done |-> TRUE, exc |-> r.exc, value |-> r.value]
    /\ UNCHANGED <<time_str, origin>>

NextParse == ApplyParse

\* No parse_time_str call in progress.
IdleParse ==
    /\ time_str = PyNone
    /\ origin = NoOrigin
    /\ parsed = NotParsed

(***************************************************************************)
(* The split derivation of the CSV section: a float is num / den, or NaN   *)
(* (an empty cell).                                                        *)
(***************************************************************************)
NaN == [nan |-> TRUE, num |-> 0, den |-> 1]
Ratio(n, d) == [nan |-> FALSE, num |-> n, den |-> d]

SpeedScale == 2
\* The speeds of the cells: NaN and the multiples of 1/SpeedScale m/s.
SpeedVals == {NaN} \cup {Ratio(u, SpeedScale) : u \in -MaxSpeed .. MaxSpeed}

\* Mutant of NotNullAndPositive: only the division by zero is guarded.
NotNullAndNonZero(x) == ~x.nan /\ x.num # 0

\* pd.notnull(x) and x > 0
NotNullAndPositive(x) == ~x.nan /\ x.num > 0

\* lambda x: 500/x if (pd.notnull(x) and x > 0) else 0
SplitOfSpeed(x) ==
    IF NotNullAndPositive(x) THEN Ratio(500 * x.den, x.num) ELSE Ratio(0, 1)

\* A split the instrument recorded itself (2:05.0 per 500 m).
RecordedSplit == Ratio(125, 1)

PerfRow(speed, split) == [speed |-> speed, split |-> split]

\* csv_df as read: with or without the two columns; a cell of a column the
\* table does not have is NaN.
PerfTables ==
    {[hasSpeed |-> hs, hasSplit |-> hp, rows |-> rows] :
        hs \in BOOLEAN, hp \in BOOLEAN,
        rows \in UNION {[1 .. n -> {PerfRow(sp, RecordedSplit) : sp \in SpeedVals}]
                          : n \in 0 .. MaxRows}}

ColumnsAsRead(t) ==
    [t EXCEPT !.rows = [i \in 1 .. Len(t.rows) |->
        PerfRow(IF t.hasSpeed THEN t.rows[i].speed ELSE NaN,
                IF t.hasSplit THEN t.rows[i].split ELSE NaN)]]

\* if 'Speed (m/s)' in csv_df.columns: csv_df['Split (s/500m)'] = ...apply(...)
DeriveSplitColumn(t) ==
    IF t.hasSpeed
    THEN [t EXCEPT !.hasSplit = TRUE,
                   !.rows = [i \in 1 .. Len(t.rows) |->
                       PerfRow(t.rows[i].speed, SplitOfSpeed(t.rows[i].speed))]]
    ELSE t

InitSplit ==
    /\ perf \in {ColumnsAsRead(t) : t \in PerfTables}
    /\ perf_read = perf
    /\ derived = FALSE
    /\ derivations = 0

OnlySplit == UNCHANGED <<replayVars, audioVars, parseVars, pipeVars>>

\* The derivation statement, run on the table it left behind when it has
\* run before.
DeriveSplit ==
    /\ OnlySplit
    /\ derivations < MaxDerivations
    /\ perf' = DeriveSplitColumn(perf)
    /\ derived' = TRUE
    /\ derivations' = derivations + 1
    /\ UNCHANGED perf_read

NextSplit == DeriveSplit

\* No performance table loaded.
IdleSplit ==
    /\ perf = [hasSpeed |-> FALSE, hasSplit |-> FALSE, rows |-> << >>]
    /\ perf_read = perf
    /\ derived = FALSE
    /\ derivations = 0

(***************************************************************************)
(* The page run.  A GPX time stamp is a number of ticks (TicksPerSec per   *)
(* second) or NaT; a float column holds Ratio or NaN cells.                *)
(***************************************************************************)
TicksPerSec == 5
NaT == Undefined
NaNCoord == Undefined     \* a NaN latitude / longitude cell
Tolerance == 5

\* A track point: its place in the file stands for its coordinates.
TrackPoint(i, t) == [latitude |-> i, longitude |-> i, time |-> t]

\* (df['time'] - start_time).dt.total_seconds()
TotalSeconds(t, start_time) ==
    IF t = NaT \/ start_time = NaT THEN NaN ELSE Ratio(t - start_time, TicksPerSec)

\* parse_gpx: the frame has no column at all when the track has no point.
parse_gpx(points) ==
    [set |-> TRUE,
     hasSeconds |-> Len(points) > 0,
     rows |-> [i \in 1 .. Len(points) |->
                 [latitude |-> points[i].latitude,
                  longitude |-> points[i].longitude,
                  seconds_elapsed |-> TotalSeconds(points[i].time, points[1].time)]]]

\* The CSV section: column 'seconds_elapsed' from 'Elapsed Time'.
read_csv(file) ==
    [set |-> TRUE,
     hasSeconds |-> file.hasElapsed,
     rows |-> [i \in 1 .. Len(file.rows) |->
                 [Distance |-> file.rows[i].Distance,
                  seconds_elapsed |->
                      IF file.hasElapsed
                      THEN parse_time_str(file.rows[i].ElapsedTime).value
                      ELSE 0]]]

NoFrame == [set |-> FALSE, hasSeconds |-> FALSE, rows |-> << >>]

\* Series.astype(int) of a float cell: the fraction is cut off.
AsInt(x) ==
    IF x.num >= 0 THEN x.num \div x.den ELSE -((-x.num) \div x.den)

\* gpx_df.dropna(subset=['seconds_elapsed']) and astype(int).
RECURSIVE DropNaSeconds(_)
DropNaSeconds(rows) ==
    IF Len(rows) = 0 THEN << >>
    ELSE LET r == rows[1]
             rest == DropNaSeconds(Tail(rows))
         IN  IF r.seconds_elapsed.nan THEN rest
             ELSE <<[r EXCEPT !.seconds_elapsed = AsInt(r.seconds_elapsed)]>> \o rest

\* Mutant of SortValues: the frame is left in file order.
Unsorted(rows) == rows

\* sort_values('seconds_elapsed'); equal keys keep their order on frames of
\* this size.
RECURSIVE SortValues(_)
SortValues(rows) ==
    IF Len(rows) <= 1 THEN rows
    ELSE LET front == SortValues(SubSeq(rows, 1, Len(rows) - 1))
             r == rows[Len(rows)]
             k == Cardinality({i \in 1 .. Len(front) :
                                 front[i].seconds_elapsed <= r.seconds_elapsed})
         IN  SubSeq(front, 1, k) \o <<r>> \o SubSeq(front, k + 1, Len(front))

IsSortedOn(rows) ==
    \A i \in 1 .. Len(rows) - 1 :
        rows[i].seconds_elapsed <= rows[i + 1].seconds_elapsed

Greatest(S) == CHOOSE x \in S : \A y \in S : y <= x
Least(S) == CHOOSE x \in S : \A y \in S : x <= y

\* Mutant of BeyondTolerance: the boundary itself is rejected.
AtOrBeyondTolerance(diff) == diff >= Tolerance

\* merge_asof's tolerance test on a candidate.
BeyondTolerance(diff) == diff > Tolerance

\* direction='backward': the last right row at or before the key.
BackwardMatch(key, right) ==
    LET S == {j \in 1 .. Len(right) : right[j].seconds_elapsed <= key}
    IN  IF S = {} THEN 0
        ELSE IF BeyondTolerance(key - right[Greatest(S)].seconds_elapsed) THEN 0
        ELSE Greatest(S)

\* direction='forward': the first right row at or after the key.
ForwardMatch(key, right) ==
    LET S == {j \in 1 .. Len(right) : right[j].seconds_elapsed >= key}
    IN  IF S = {} THEN 0
        ELSE IF BeyondTolerance(right[Least(S)].seconds_elapsed - key) THEN 0
        ELSE Least(S)

\* direction='nearest': the closer of the two, the backward one on a tie.
NearestMatch(key, right) ==
    LET b == BackwardMatch(key, right)
        f == ForwardMatch(key, right)
    IN  IF b # 0 /\ f # 0
        THEN IF key - right[b].seconds_elapsed <= right[f].seconds_elapsed - key
             THEN b ELSE f
        ELSE IF b # 0 THEN b ELSE f

\* pd.merge_asof(left, right[['seconds_elapsed','latitude','longitude']],
\*               on='seconds_elapsed', direction='nearest', tolerance=5)
merge_asof(left, right) ==
    IF ~IsSortedOn(left) \/ ~IsSortedOn(right) THEN [exc |-> "ValueError", rows |-> << >>]
    ELSE [exc |-> NoExc,
          rows |-> [i \in 1 .. Len(left) |->
              LET j == NearestMatch(left[i].seconds_elapsed, right)
              IN  [Distance |-> left[i].Distance,
                   seconds_elapsed |-> left[i].seconds_elapsed,
                   latitude |-> IF j = 0 THEN NaNCoord ELSE right[j].latitude,
                   longitude |-> IF j = 0 THEN NaNCoord ELSE right[j].longitude]]]

\* merged_df.dropna(subset=['latitude', 'longitude'])
RECURSIVE DropNaCoords(_)
DropNaCoords(rows) ==
    IF Len(rows) = 0 THEN << >>
    ELSE LET rest == DropNaCoords(Tail(rows))
         IN  IF rows[1].latitude = NaNCoord \/ rows[1].longitude = NaNCoord
             THEN rest ELSE <<rows[1]>> \o rest

\* merge_datasets(gpx_df, csv_df): a frame without the column makes dropna
\* raise KeyError.
merge_datasets(g, c) ==
    IF ~g.hasSeconds \/ ~c.hasSeconds
    THEN [exc |-> "KeyError", rows |-> << >>, right |-> << >>]
    ELSE LET gpx_sorted == SortValues(DropNaSeconds(g.rows))
             csv_sorted == SortValues(c.rows)
             m == merge_asof(csv_sorted, gpx_sorted)
         IN  [exc |-> m.exc, rows |-> DropNaCoords(m.rows), right |-> gpx_sorted]

\* Mutant of NotEmptyFrame: the replay is built whatever the join returned.
AnyFrame(rows) == TRUE

\* if not merged_df_client.empty
NotEmptyFrame(rows) == Len(rows) > 0

(***************************************************************************)
(* The uploads.  Only the differences to the first time stamp of a track   *)
(* reach the code, so a track starts at tick 0 or has no time.  A later    *)
(* time stamp is a whole second, or 0.6 s or 1.6 s after the first.        *)
(***************************************************************************)
SubSecondTicks == {3, 8}

GpxTimes ==
    {sec * TicksPerSec : sec \in 0 .. MaxT} \cup SubSecondTicks \cup {NaT}

TimeStamps ==
    {ts \in UNION {[1 .. k -> GpxTimes] : k \in 0 .. MaxGpx} :
        Len(ts) > 0 => ts[1] \in {0, NaT}}

GpxFiles ==
    {[loaded |-> FALSE, points |-> << >>]} \cup
    {[loaded |-> TRUE, points |-> [i \in 1 .. Len(ts) |-> TrackPoint(i, ts[i])]] :
        ts \in TimeStamps}

ElapsedCell(sec) == PyStr(FmtMS(0, 1, sec, NoFraction))

CsvFiles ==
    {[loaded |-> FALSE, hasElapsed |-> FALSE, rows |-> << >>]} \cup
    UNION {{[loaded |-> TRUE, hasElapsed |-> TRUE,
             rows |-> [i \in 1 .. n |->
                        [Distance |-> i, ElapsedTime |-> ElapsedCell(secs[i])]]] :
               secs \in [1 .. n -> 0 .. MaxT]} : n \in 0 .. MaxCsv} \cup
    {[loaded |-> TRUE, hasElapsed |-> FALSE,
      rows |-> [i \in 1 .. n |-> [Distance |-> i, ElapsedTime |-> PyNone]]] :
        n \in 0 .. MaxCsv}

NotMerged == [called |-> FALSE, exc |-> NoExc, rows |-> << >>, right |-> << >>]
BlankPage == [gpx |-> "none", csv |-> "none", replay |-> "none", audio |-> "none"]

InitPipeline ==
    /\ gpx_file \in GpxFiles
    /\ csv_file \in CsvFiles
    /\ pc = "gpx"
    /\ gpx_df = NoFrame
    /\ csv_df = NoFrame
    /\ merged = NotMerged
    /\ view = BlankPage
    /\ audio_bytes = FALSE
    /\ uncaught = NoExc
    /\ runs = 1
    /\ merge_calls = 0

OnlyPipeline == UNCHANGED <<replayVars, audioVars, parseVars, splitVars>>

\* "2. Process and Plot GPX": parse_gpx, then the map centred on the first
\* point; an exception of the section is reported with st.error.
GpxSection ==
    /\ OnlyPipeline
    /\ pc = "gpx"
    /\ pc' = "csv"
    /\ IF gpx_file.loaded
       THEN /\ gpx_df' = parse_gpx(gpx_file.points)
            /\ view' = [view EXCEPT !.gpx = IF Len(gpx_file.points) = 0
                                              THEN "error" ELSE "map"]
       ELSE UNCHANGED <<gpx_df, view>>
    /\ UNCHANGED <<gpx_file, csv_file, csv_df, merged>>
    /\ UNCHANGED <<audio_bytes, uncaught, runs, merge_calls>>

\* "3. Process and Plot CSV".
CsvSection ==
    /\ OnlyPipeline
    /\ pc = "csv"
    /\ pc' = "replay"
    /\ IF csv_file.loaded
       THEN /\ csv_df' = read_csv(csv_file)
            /\ view' = [view EXCEPT !.csv = "table"]
       ELSE UNCHANGED <<csv_df, view>>
    /\ UNCHANGED <<gpx_file, csv_file, gpx_df, merged>>
    /\ UNCHANGED <<audio_bytes, uncaught, runs, merge_calls>>

\* "4. Client Side HTML based interactive replay map".
ReplaySection ==
    /\ OnlyPipeline
    /\ pc = "replay"
    /\ pc' = "audio"
    /\ IF gpx_df.set /\ csv_df.set
       THEN LET m == merge_datasets(gpx_df, csv_df)
            IN  /\ merged' = [called |-> TRUE, exc |-> m.exc, rows |-> m.rows,
                              right |-> m.right]
                /\ merge_calls' = merge_calls + 1
                /\ view' = [view EXCEPT !.replay =
                              IF m.exc # NoExc THEN "error"
                              ELSE IF NotEmptyFrame(m.rows) THEN "component"
                              ELSE "warning"]
       ELSE UNCHANGED <<merged, view, merge_calls>>
    /\ UNCHANGED <<gpx_file, csv_file, gpx_df, csv_df>>
    /\ UNCHANGED <<audio_bytes, uncaught, runs>>

\* gpx_df['seconds_elapsed'].astype(int), in place: NaN cannot be cast.
HasNaNSeconds(rows) == \E i \in 1 .. Len(rows) : rows[i].seconds_elapsed.nan

AsTypeInt(rows) ==
    [i \in 1 .. Len(rows) |->
        [rows[i] EXCEPT !.seconds_elapsed =
            Ratio(AsInt(rows[i].seconds_elapsed) * TicksPerSec, TicksPerSec)]]

\* The statements of the audio block up to the first one that raises:
\* the two casts, the merge of the stats onto the track, and the call
\* generate_audio_map_html(audio_data, audio_bytes, audio.type), whose third
\* argument reads a name the script never binds.
AudioSync(g, c) ==
    IF c.set /\ HasNaNSeconds(g.rows) THEN [exc |-> "ValueError", gpx_df |-> g]
    ELSE IF c.set /\ ~c.hasSeconds
    THEN [exc |-> "KeyError", gpx_df |-> [g EXCEPT !.rows = AsTypeInt(g.rows)]]
    ELSE [exc |-> "NameError",
          gpx_df |-> IF c.set THEN [g EXCEPT !.rows = AsTypeInt(g.rows)] ELSE g]

\* "5. Audio Analysis Section": the uploader, then the sync block, which is
\* outside every try.
AudioSection ==
    /\ OnlyPipeline
    /\ pc = "audio"
    /\ \E uploaded_audio \in BOOLEAN :
          /\ audio_bytes' = uploaded_audio
          /\ IF gpx_df.set /\ uploaded_audio
             THEN IF gpx_df.hasSeconds
                  THEN LET a == AudioSync(gpx_df, csv_df)
                       IN  /\ gpx_df' = a.gpx_df
                           /\ uncaught' = a.exc
                           /\ pc' = IF a.exc = NoExc THEN "done" ELSE "aborted"
                           /\ view' = [view EXCEPT !.audio =
                                         IF a.exc = NoExc THEN "component"
                                         ELSE "loading"]
                  ELSE /\ view' = [view EXCEPT !.audio = "error"]
                       /\ pc' = "done"
                       /\ UNCHANGED <<gpx_df, uncaught>>
             ELSE /\ pc' = "done"
                  /\ UNCHANGED <<gpx_df, uncaught, view>>
    /\ UNCHANGED <<gpx_file, csv_file, csv_df, merged, runs, merge_calls>>

\* Streamlit runs the script again, top to bottom, on a widget event; the
\* uploaders still hold the same files.
Rerun ==
    /\ OnlyPipeline
    /\ pc \in {"done", "aborted"}
    /\ runs < MaxRuns
    /\ runs' = runs + 1
    /\ pc' = "gpx"
    /\ gpx_df' = NoFrame
    /\ csv_df' = NoFrame
    /\ merged' = NotMerged
    /\ view' = BlankPage
    /\ audio_bytes' = FALSE
    /\ uncaught' = NoExc
    /\ UNCHANGED <<gpx_file, csv_file, merge_calls>>

NextPipeline ==
    GpxSection \/ CsvSection \/ ReplaySection \/ AudioSection \/ Rerun

\* No page run.
IdlePipeline ==
    /\ gpx_file = [loaded |-> FALSE, points |-> << >>]
    /\ csv_file = [loaded |-> FALSE, hasElapsed |-> FALSE, rows |-> << >>]
    /\ pc = "idle"
    /\ gpx_df = NoFrame
    /\ csv_df = NoFrame
    /\ merged = NotMerged
    /\ view = BlankPage
    /\ audio_bytes = FALSE
    /\ uncaught = NoExc
    /\ runs = 0
    /\ merge_calls = 0

(***************************************************************************)
(* The specifications.                                                     *)
(***************************************************************************)
ReplayPage == InitReplay /\ IdleAudio /\ IdleParse /\ IdleSplit /\ IdlePipeline
SpecReplay == ReplayPage /\ [][NextReplay]_vars

AudioPage == InitAudio /\ IdleReplay /\ IdleParse /\ IdleSplit /\ IdlePipeline
SpecAudio == AudioPage /\ [][NextAudio]_vars

ParseCall == InitParse /\ IdleReplay /\ IdleAudio /\ IdleSplit /\ IdlePipeline
SpecParse == ParseCall /\ [][NextParse]_vars

SplitRun == InitSplit /\ IdleReplay /\ IdleAudio /\ IdleParse /\ IdlePipeline
SpecSplit == SplitRun /\ [][NextSplit]_vars

PageRun == InitPipeline /\ IdleReplay /\ IdleAudio /\ IdleParse /\ IdleSplit
SpecPipeline == PageRun /\ [][NextPipeline]_vars

(***************************************************************************)
(* C1: for a joined sequence of length N >= 2, once the script has run and *)
(* after any slider events, 0 <= trimStart < trimEnd <= N-1 and            *)
(* trimStart <= currentIndex <= trimEnd.                                   *)
(***************************************************************************)
C1_TrimInvariant ==
    (rpc = "ready" /\ totalLen >= 2) =>
        /\ 0 <= trimStart /\ trimStart < trimEnd /\ trimEnd <= totalLen - 1
        /\ trimStart <= currentIndex /\ currentIndex <= trimEnd

(***************************************************************************)
(* C2: after a tick whose playback time is smaller than the elapsed        *)
(* seconds of the sample resolved before it (a backward scrub), the scan   *)
(* started at index 0 and the reported sample has the minimum absolute     *)
(* time difference over the whole stream, as a linear scan finds it.       *)
(***************************************************************************)
LinearScanMinDiff(pts, t) ==
    CHOOSE d \in {Abs(t - pts[j]) : j \in 1 .. Len(pts)} :
        \A j \in 1 .. Len(pts) : d <= Abs(t - pts[j])

BackwardScrub ==
    /\ apc = "ready"
    /\ lastTick # NoTick
    /\ currentTime < SecondsAt(routeSeconds, lastTick.lastIdx)

C2_BackwardScrubNearest ==
    BackwardScrub =>
        /\ lastTick.startSearch = 0
        /\ Abs(currentTime - SecondsAt(routeSeconds, statsIdx))
             = LinearScanMinDiff(routeSeconds, currentTime)

(***************************************************************************)
(* The join's inputs as the claims name them: the elapsed seconds of the   *)
(* position samples that have a time, and of a performance sample.         *)
(***************************************************************************)
\* e is the whole-second part of the elapsed time of position row i.
PositionAt(i, e) ==
    LET x == gpx_df.rows[i].seconds_elapsed
    IN  ~x.nan /\ TicksPerSec * e <= x.num /\ x.num < TicksPerSec * (e + 1)

PositionSeconds ==
    {e \in 0 .. MaxT + 1 : \E i \in 1 .. Len(gpx_df.rows) : PositionAt(i, e)}

InOutput(d) == \E k \in 1 .. Len(merged.rows) : merged.rows[k].Distance = d

\* The join ran on two frames that carry elapsed seconds.
Joined == merged.called /\ gpx_df.hasSeconds /\ csv_df.hasSeconds

\* The smallest time difference of performance row i to a position sample.
NearestGap(i) ==
    Least({Abs(csv_df.rows[i].seconds_elapsed - e) : e \in PositionSeconds})

(***************************************************************************)
(* C3: a performance sample is in the join's output exactly when some      *)
(* position sample is at most 5 elapsed seconds away (5 is in, 6 is out),  *)
(* and no output row has a null latitude or longitude.                     *)
(***************************************************************************)
C3_ToleranceBoundary ==
    Joined =>
        /\ merged.exc = NoExc
        /\ \A i \in 1 .. Len(csv_df.rows) :
              InOutput(csv_df.rows[i].Distance)
                <=> \E e \in PositionSeconds :
                       Abs(csv_df.rows[i].seconds_elapsed - e) <= 5
        /\ \A k \in 1 .. Len(merged.rows) :
              merged.rows[k].latitude # NaNCoord /\ merged.rows[k].longitude # NaNCoord

\* One performance sample exactly 5 s from its nearest position sample is
\* in the output and another, 6 s away, is not.
C3_Witness ==
    /\ Joined /\ PositionSeconds # {}
    /\ \E i, j \in 1 .. Len(csv_df.rows) :
          /\ NearestGap(i) = 5 /\ InOutput(csv_df.rows[i].Distance)
          /\ NearestGap(j) = 6 /\ ~InOutput(csv_df.rows[j].Distance)

(***************************************************************************)
(* C4: when every performance sample has a position sample with the same   *)
(* elapsed seconds, the output has as many rows as the performance stream  *)
(* and each row carries the coordinates of a position sample whose elapsed *)
(* seconds equal the row's.                                                *)
(***************************************************************************)
AllExact ==
    \A i \in 1 .. Len(csv_df.rows) :
        csv_df.rows[i].seconds_elapsed \in PositionSeconds

C4_ExactMatches ==
    (Joined /\ AllExact) =>
        /\ merged.exc = NoExc
        /\ Len(merged.rows) = Len(csv_df.rows)
        /\ \A k \in 1 .. Len(merged.rows) :
              \E i \in 1 .. Len(gpx_df.rows) :
                  /\ PositionAt(i, merged.rows[k].seconds_elapsed)
                  /\ merged.rows[k].latitude = gpx_df.rows[i].latitude
                  /\ merged.rows[k].longitude = gpx_df.rows[i].longitude

\* Two performance samples, logged out of time order, each matched to its
\* own position sample.
C4_Witness ==
    /\ Joined /\ AllExact
    /\ Len(csv_df.rows) = 2 /\ Len(merged.rows) = 2
    /\ csv_df.rows[1].seconds_elapsed > csv_df.rows[2].seconds_elapsed
    /\ merged.rows[1].latitude # merged.rows[2].latitude

(***************************************************************************)
(* C5: the join of an empty position sequence (a track with no points)     *)
(* with a performance sequence, or of a position sequence with an empty    *)
(* performance sequence, returns an empty sequence and does not raise.     *)
(***************************************************************************)
C5_EmptyInputsJoinEmpty ==
    (/\ merged.called
     /\ csv_df.hasSeconds
     /\ Len(gpx_df.rows) = 0 \/ Len(csv_df.rows) = 0) =>
        /\ merged.exc = NoExc
        /\ merged.rows = << >>

(***************************************************************************)
(* C6: when the join of two non-empty streams returns no row, the replay   *)
(* section shows the warning; the replay component is never built on an    *)
(* empty joined sequence, and the empty join is not an error.              *)
(***************************************************************************)
C6_EmptyJoinWarns ==
    /\ (/\ merged.called /\ merged.exc = NoExc
        /\ Len(merged.rows) = 0
        /\ Len(gpx_df.rows) > 0 /\ Len(csv_df.rows) > 0) => view.replay = "warning"
    /\ view.replay = "component" => Len(merged.rows) > 0

\* Two non-empty streams, every performance sample more than 5 s from the
\* positions, and the run is over.
C6_Witness ==
    /\ pc = "done" /\ Joined
    /\ PositionSeconds # {} /\ Len(csv_df.rows) > 0
    /\ \A i \in 1 .. Len(csv_df.rows) : NearestGap(i) > 5
    /\ view.replay = "warning"

(***************************************************************************)
(* C7: parse_time_str returns a value and never raises, whatever the       *)
(* input; a malformed input (None, the empty string, a string with one     *)
(* part or more than three parts, an empty or a non-numeric component)     *)
(* yields 0.                                                               *)
(***************************************************************************)
NumColons(cs) == Cardinality({i \in 1 .. Len(cs) : cs[i] = ":"})
HasLetter(cs) == \E i \in 1 .. Len(cs) : cs[i] \notin {":", ".", "-", "+"} /\ ~IsDigit(cs[i])
HasEmptyPart(cs) ==
    \/ Len(cs) = 0
    \/ cs[1] = ":"
    \/ cs[Len(cs)] = ":"
    \/ \E i \in 1 .. Len(cs) - 1 : cs[i] = ":" /\ cs[i + 1] = ":"

Malformed(x) ==
    \/ x.kind = "None"
    \/ /\ x.kind = "str"
       /\ \/ NumColons(x.chars) \notin {1, 2}
          \/ HasLetter(x.chars)
          \/ HasEmptyPart(x.chars)

C7_NeverRaises ==
    parsed.done =>
        /\ parsed.exc = NoExc
        /\ Malformed(time_str) => parsed.value = 0

\* A string with a non-numeric component in an MM:SS shape has been parsed.
C7_Witness ==
    /\ parsed.done
    /\ time_str.kind = "str"
    /\ NumColons(time_str.chars) = 1
    /\ HasLetter(time_str.chars)
    /\ ~HasEmptyPart(time_str.chars)

(***************************************************************************)
(* C8: the result of parse_time_str is a non-negative integer for every    *)
(* input, negative numbers and strings with a negative component included. *)
(***************************************************************************)
C8_NonNegative == parsed.done => (parsed.exc = NoExc /\ parsed.value >= 0)

(***************************************************************************)
(* C9: for a valid "H:MM:SS[.f]" or "MM:SS[.f]" string the result is       *)
(* hours*3600 + minutes*60 + seconds rounded to the nearest integer;       *)
(* "01:02:03.5" gives 3723 and "15:30.5" gives 930.                        *)
(***************************************************************************)
Example1 == PyStr(<<"0", "1", ":", "0", "2", ":", "0", "3", ".", "5">>)
Example2 == PyStr(<<"1", "5", ":", "3", "0", ".", "5">>)

\* v is a nearest integer of tenths / 10.
NearestInteger(v, tenths) == Abs(10 * v - tenths) <= 5

C9_RoundedAsStated ==
    (parsed.done /\ origin.valid) =>
        /\ NearestInteger(parsed.value, origin.tenths)
        /\ time_str = Example1 => parsed.value = 3723
        /\ time_str = Example2 => parsed.value = 930

(***************************************************************************)
(* C9 as amended: the result is the nearest integer of the second count,   *)
(* a tie (a fraction of exactly .5) going to the even integer;             *)
(* "01:02:03.5" gives 3724 and "15:30.5" gives 930.                        *)
(***************************************************************************)
C9_RoundedHalfEven ==
    (parsed.done /\ origin.valid) =>
        /\ NearestInteger(parsed.value, origin.tenths)
        /\ Abs(10 * parsed.value - origin.tenths) = 5 => parsed.value % 2 = 0
        /\ time_str = Example1 => parsed.value = 3724
        /\ time_str = Example2 => parsed.value = 930

\* "01:02:03.5" has been parsed.
C9_Witness == parsed.done /\ origin.valid /\ time_str = Example1

(***************************************************************************)
(* C10: once the derivation has run on a table with a speed column, every  *)
(* row's split is 500 / speed when the speed is a positive number (speed   *)
(* 2.0 gives 250.0) and 0 when the speed is 0, negative or NaN (missing).  *)
(***************************************************************************)
IsTwo(x) == ~x.nan /\ x.num = 2 * x.den
IsZero(x) == ~x.nan /\ x.num = 0

C10_SplitDerivation ==
    (derived /\ perf.hasSpeed) =>
        /\ perf.hasSplit
        /\ \A i \in 1 .. Len(perf.rows) :
              LET speed == perf.rows[i].speed
                  split == perf.rows[i].split
              IN  /\ ~split.nan /\ split.den # 0
                  /\ (~speed.nan /\ speed.num > 0) =>
                        split.num * speed.num = 500 * speed.den * split.den
                  /\ IsTwo(speed) => split.num = 250 * split.den
                  /\ (speed.nan \/ speed.num <= 0) => IsZero(split)

\* A table with a row at 2.0 m/s and a row with a negative speed has been
\* derived.
C10_Witness ==
    /\ derived /\ perf.hasSpeed
    /\ \E i, j \in 1 .. Len(perf.rows) :
          /\ IsTwo(perf.rows[i].speed) /\ perf.rows[i].split.num = 250 * perf.rows[i].split.den
          /\ ~perf.rows[j].speed.nan /\ perf.rows[j].speed.num < 0

(***************************************************************************)
(* C11: over the runs of the page script on the same uploaded position and *)
(* performance files, the body of merge_datasets is executed at most once: *)
(* a rerun reuses the joined sequence of the earlier run.                  *)
(***************************************************************************)
C11_JoinComputedOnce ==
    (merged.called /\ merged.exc = NoExc) => merge_calls <= 1

(***************************************************************************)
(* C12: every position row that enters merge_asof carries, as its elapsed  *)
(* seconds, the nearest integer of its time stamp minus the first point's  *)
(* time stamp (a point 0.6 s after the first carries 1).                   *)
(***************************************************************************)
\* The offset of track point i to the first point, in ticks.
OffsetTicks(i) == gpx_file.points[i].time - gpx_file.points[1].time

IsNearestInteger(n, ticks) == Abs(2 * (TicksPerSec * n - ticks)) <= TicksPerSec

C12_ElapsedRounded ==
    (Joined /\ merged.exc = NoExc) =>
        \A k \in 1 .. Len(merged.right) :
            IsNearestInteger(merged.right[k].seconds_elapsed,
                             OffsetTicks(merged.right[k].latitude))

(***************************************************************************)
(* C15: when the track carries elapsed seconds and an audio recording is   *)
(* loaded, with or without a performance file, the audio section builds    *)
(* the playback component and no exception ends the run.                   *)
(***************************************************************************)
C15_AudioSyncBuilds ==
    (/\ pc \in {"done", "aborted"}
     /\ gpx_df.set /\ gpx_df.hasSeconds /\ audio_bytes) =>
        /\ uncaught = NoExc
        /\ view.audio = "component"

(***************************************************************************)
(* C13: on a time-sorted stream, as long as the playback times of the      *)
(* ticks never went back, a tick never lowers lastIdx.                     *)
(***************************************************************************)
C13_ResolvedIndexMonotone ==
    (apc = "ready" /\ lastTick # NoTick /\ lastTick.ascending) =>
        lastIdx >= lastTick.lastIdx

\* Playback times that never went back, and a tick that found itself before
\* the last resolved sample and restarted its scan at index 0.
C13_Witness ==
    /\ apc = "ready" /\ lastTick # NoTick /\ lastTick.ascending
    /\ lastTick.time # Unset /\ lastTick.time <= currentTime
    /\ lastTick.lastIdx > 0 /\ lastTick.startSearch = 0
    /\ lastIdx = lastTick.lastIdx

(***************************************************************************)
(* C14: on an empty position stream the audio script does not throw: its   *)
(* start-up completes and the stat boxes keep their placeholder.           *)
(***************************************************************************)
C14_EmptyStreamNoRaise ==
    Len(routeSeconds) = 0 =>
        /\ apc \in {"absent", "html", "ready"}
        /\ statsIdx = Placeholder

(***************************************************************************)
(* C18: after a tick whose playback time is at or after the elapsed        *)
(* seconds of the sample resolved before it, the scan started at that      *)
(* sample's index, moved forward over differences that never grew and      *)
(* stopped before the first larger one, and the reported sample has the    *)
(* minimum absolute time difference over the whole stream.                 *)
(***************************************************************************)
ForwardTick ==
    /\ apc = "ready"
    /\ lastTick # NoTick
    /\ currentTime >= SecondsAt(routeSeconds, lastTick.lastIdx)

DiffAt(i) == Abs(currentTime - SecondsAt(routeSeconds, i))

C18_ForwardScanNearest ==
    ForwardTick =>
        /\ lastTick.startSearch = lastTick.lastIdx
        /\ lastIdx >= lastTick.lastIdx
        /\ \A i \in lastTick.lastIdx .. lastIdx - 1 : DiffAt(i + 1) <= DiffAt(i)
        /\ lastIdx + 1 < Len(routeSeconds) => DiffAt(lastIdx + 1) > DiffAt(lastIdx)
        /\ statsIdx = lastIdx /\ markerIdx = lastIdx
        /\ DiffAt(statsIdx) = LinearScanMinDiff(routeSeconds, currentTime)

\* A forward tick that started past index 0, stepped over a sample at the
\* same distance as the one it started on, and stopped before the end.
C18_Witness ==
    /\ ForwardTick
    /\ lastTick.lastIdx > 0
    /\ lastIdx > lastTick.lastIdx
    /\ DiffAt(lastIdx) = DiffAt(lastTick.lastIdx)
    /\ lastIdx + 1 < Len(routeSeconds)

(***************************************************************************)
(* The slider events as the design's transitions: lastEvent holds the      *)
(* value v the slider was dragged to and the replay state before it.       *)
(***************************************************************************)
Clamp(v, lo, hi) == Max2(lo, Min2(v, hi))

TrimEndEvent == rpc = "ready" /\ lastEvent.kind = "trimEnd"
TrimStartEvent == rpc = "ready" /\ lastEvent.kind = "trimStart"
SeekEvent == rpc = "ready" /\ lastEvent.kind = "replay"

(***************************************************************************)
(* C16: after the Crop End slider was dragged to v, trimEnd is v clamped   *)
(* to [trimStart + 1, N - 1], trimStart is what it was, and currentIndex   *)
(* is what it was unless that was greater than trimEnd, in which case it   *)
(* is trimEnd.                                                             *)
(***************************************************************************)
C16_SetTrimEnd ==
    TrimEndEvent =>
        /\ trimEnd = Clamp(lastEvent.v, lastEvent.trimStart + 1, totalLen - 1)
        /\ trimStart = lastEvent.trimStart
        /\ currentIndex = IF lastEvent.currentIndex > trimEnd THEN trimEnd
                          ELSE lastEvent.currentIndex

(***************************************************************************)
(* C17: after the Crop Start slider was dragged to v, trimStart is v       *)
(* clamped to [0, trimEnd - 1], trimEnd is what it was, and currentIndex   *)
(* is what it was unless that was smaller than trimStart, in which case it *)
(* is trimStart.                                                           *)
(***************************************************************************)
C17_SetTrimStart ==
    TrimStartEvent =>
        /\ trimStart = Clamp(lastEvent.v, 0, lastEvent.trimEnd - 1)
        /\ trimEnd = lastEvent.trimEnd
        /\ currentIndex = IF lastEvent.currentIndex < trimStart THEN trimStart
                          ELSE lastEvent.currentIndex

(***************************************************************************)
(* C19: after a drag of either crop slider the chart holds exactly the     *)
(* joined samples trimStart .. trimEnd (at least two), and the vertical    *)
(* line stands at chart index currentIndex - trimStart when that index is  *)
(* on the chart and is not drawn otherwise.                                *)
(***************************************************************************)
Window(from, to) == [i \in 1 .. (to - from + 1) |-> from + i - 1]

C19_ChartWindow ==
    (TrimStartEvent \/ TrimEndEvent) =>
        /\ chartData = Window(trimStart, trimEnd)
        /\ Len(chartData) >= 2
        /\ vline = IF /\ currentIndex - trimStart >= 0
                      /\ currentIndex - trimStart < Len(chartData)
                   THEN currentIndex - trimStart
                   ELSE NoLine

(***************************************************************************)
(* C20: after the Replay slider was dragged to v, currentIndex is v        *)
(* clamped to [trimStart, trimEnd], and trimStart, trimEnd and the chart   *)
(* data are what they were.                                                *)
(***************************************************************************)
C20_Seek ==
    SeekEvent =>
        /\ currentIndex = Clamp(lastEvent.v, trimStart, trimEnd)
        /\ trimStart = lastEvent.trimStart
        /\ trimEnd = lastEvent.trimEnd
        /\ chartData = lastEvent.chartData

(***************************************************************************)
(* C21: for a joined sequence of length 1, once the script has run and     *)
(* after any slider events, trimStart, trimEnd and currentIndex are 0 and  *)
(* the replay slider's range is [0, 0].                                    *)
(***************************************************************************)
C21_SingleSample ==
    (rpc = "ready" /\ totalLen = 1) =>
        /\ trimStart = 0 /\ trimEnd = 0 /\ currentIndex = 0
        /\ replaySlider.min = 0 /\ replaySlider.max = 0

(***************************************************************************)
(* C22: on a table read with both a speed and a split column, every row's  *)
(* split after one or more runs of the derivation is the split the table   *)
(* was read with.                                                          *)
(***************************************************************************)
SameCell(a, b) ==
    \/ a.nan /\ b.nan
    \/ ~a.nan /\ ~b.nan /\ a.num * b.den = b.num * a.den

C22_RecordedSplitKept ==
    (derived /\ perf_read.hasSpeed /\ perf_read.hasSplit) =>
        \A i \in 1 .. Len(perf.rows) :
            SameCell(perf.rows[i].split, perf_read.rows[i].split)

(***************************************************************************)
(* C23: after every drag of the replay slider or of a crop slider, the     *)
(* marker and the stat boxes show the joined sample at currentIndex, the   *)
(* replay slider's value.                                                  *)
(***************************************************************************)
C23_DisplayShowsCurrent ==
    (TrimStartEvent \/ TrimEndEvent \/ SeekEvent) => shownIdx = currentIndex

====
